---- MODULE Spec2Model ----
(***************************************************************************)
(* A model of the kinetics package: the reaction containers                *)
(* (containers.py), the network compiler (reactions.py) and the right-hand *)
(* side handed to the ODE solver (solvers.py).                             *)
(*                                                                         *)
(* Conventions.  Python's Optional[x] is a sequence of length at most one  *)
(* (None is <<>>, a value v is <<v>>).  A dict whose iteration order       *)
(* matters is a sequence of entries in insertion order; a dict that is     *)
(* only looked up is a function.  A Python set of reactions is a set of    *)
(* reaction records (dataclass equality compares every field, as record    *)
(* equality does); its iteration order is not fixed by the language and is *)
(* a nondeterministic choice.  Floats are modelled by integers.            *)
(***************************************************************************)
EXTENDS Integers, Sequences, FiniteSets, TLC

VARIABLES
    rxns,                \* compile_reaction_network: the input sequence of reactions
    compile_result,      \* what compile_reaction_network returned: <<>> or <<[rate_consts, contributing_terms]>>
    raised,              \* the exception that left the last call ("" when it returned)
    phase,               \* which call the caller has made last
    idxs_by_species,     \* compute_rate_const_tensors: the species index map passed in
    scaling_groups,      \* compute_rate_const_tensors: the scaling-group mapping passed in
    processed,           \* the (species, sign, reaction) triples in the order the loops visited them
    warnings,            \* the orders LOGGER.warn was called with, in call order
    rate_const_tensors,  \* what compute_rate_const_tensors returned: <<>> or <<tensors_by_order>>
    t,                   \* law_of_mass_action: the time argument of the last call
    C,                   \* law_of_mass_action: the concentration vector of the last call
    dCdt,                \* law_of_mass_action: what the last call returned: <<>> or <<vector>>
    pool,                \* the reactions a caller holds (create_reverse_reaction)
    derived_from         \* pool index of the reaction each pool entry was reversed from (0: constructed)

vars == <<rxns, compile_result, raised, phase, idxs_by_species, scaling_groups,
          processed, warnings, rate_const_tensors, t, C, dCdt, pool, derived_from>>

compile_vars == <<rxns, compile_result>>
tensor_vars  == <<idxs_by_species, scaling_groups, processed, warnings, rate_const_tensors>>
ode_vars     == <<t, C, dCdt>>
reverse_vars == <<pool, derived_from>>

-----------------------------------------------------------------------------
(* Bounds of the model *)

MaxRxns == 2          \* longest network handed to compile_reaction_network
MaxPool == 3          \* most reactions a caller derives from one another by reversal
MaxKeyRxns == 3       \* longest network of the duplicate-key runs
MaxNonZero == 2       \* most non-zero cells of the tensors handed to law_of_mass_action

Species == {"A", "B", "C"}
None == <<>>

\* RangeOf(f): the values f takes
RangeOf(f) == {f[x] : x \in DOMAIN f}

\* Perms(S): every sequence that enumerates the finite set S once (the orders in
\* which iterating a Python set may yield its members)
RECURSIVE Perms(_)
Perms(S) ==
    IF S = {} THEN {<<>>}
    ELSE UNION {{<<x>> \o p : p \in Perms(S \ {x})} : x \in S}

-----------------------------------------------------------------------------
(* containers.py: ElementaryReaction *)

ElementaryReaction(reactants, products, rate_const_value, rate_const_key, name, scaling_group_id) ==
    [reactants        |-> reactants,
     products         |-> products,
     rate_const_value |-> rate_const_value,
     rate_const_key   |-> rate_const_key,
     name             |-> name,
     scaling_group_id |-> scaling_group_id]

order(rxn) == Len(rxn.reactants)

\* a reversal that passes the species lists on without swapping them
create_reverse_reaction_unswapped(self, k_rev_value, k_rev_key, rev_name, default_suffix) ==
    LET key  == IF k_rev_key = None
                THEN self.rate_const_key \o (IF self.rate_const_key # "" THEN "_" ELSE "") \o default_suffix
                ELSE k_rev_key[1]
        name == IF rev_name = None
                THEN self.name \o (IF self.name # "" THEN "_" ELSE "") \o default_suffix
                ELSE rev_name[1]
    IN  ElementaryReaction(self.reactants, self.products, k_rev_value, key, name, None)

\* ElementaryReaction.create_reverse_reaction: a new reaction with the species
\* lists swapped; the key and the name are synthesised unless given, and the
\* scaling group is not passed on (the constructor's default, None, applies)
create_reverse_reaction(self, k_rev_value, k_rev_key, rev_name, default_suffix) ==
    LET key  == IF k_rev_key = None
                THEN self.rate_const_key \o (IF self.rate_const_key # "" THEN "_" ELSE "") \o default_suffix
                ELSE k_rev_key[1]
        name == IF rev_name = None
                THEN self.name \o (IF self.name # "" THEN "_" ELSE "") \o default_suffix
                ELSE rev_name[1]
    IN  ElementaryReaction(self.products, self.reactants, k_rev_value, key, name, None)

(* containers.py: StoichBalanceTerms *)

\* the default-constructed aggregator: both sets empty
StoichBalanceTerms == [generation |-> {}, consumption |-> {}]

\* Signed(sign, seq): the list [(sign, rxn) for rxn in seq]
Signed(sign, seq) == [i \in 1..Len(seq) |-> <<sign, seq[i]>>]

\* a signed list that gives consumption the sign of generation
signed_rxns_unsigned(sbt) ==
    {Signed(1, g) \o Signed(1, c) : g \in Perms(sbt.generation), c \in Perms(sbt.consumption)}

\* StoichBalanceTerms.signed_rxns: the generation set, then the consumption
\* set, each in one of the orders iterating the set may produce
signed_rxns(sbt) ==
    {Signed(1, g) \o Signed(-1, c) : g \in Perms(sbt.generation), c \in Perms(sbt.consumption)}

-----------------------------------------------------------------------------
(* reactions.py: compile_reaction_network *)

\* the (balance type, species list) pairs in the order the dict is iterated
SPECIES_BY_CONTRIB == <<<<"generation", "products">>, <<"consumption", "reactants">>>>

\* position of species in the per-species mapping, 0 when it has no entry yet
EntryOf(contributing_terms, species) ==
    IF \E i \in 1..Len(contributing_terms) : contributing_terms[i].species = species
    THEN CHOOSE i \in 1..Len(contributing_terms) : contributing_terms[i].species = species
    ELSE 0

\* an aggregation that replaces the set by the reaction instead of adding to it
AddTermReplacing(contributing_terms, species, balance_type, rxn) ==
    LET ct == IF EntryOf(contributing_terms, species) = 0
              THEN Append(contributing_terms, [species |-> species, sbt |-> StoichBalanceTerms])
              ELSE contributing_terms
        i  == EntryOf(ct, species)
    IN  [ct EXCEPT ![i].sbt[balance_type] = {rxn}]

\* getattr(contributing_terms[species], balance_type).add(rxn): the defaultdict
\* creates the entry on first access (appended: dicts keep insertion order)
AddTerm(contributing_terms, species, balance_type, rxn) ==
    LET ct == IF EntryOf(contributing_terms, species) = 0
              THEN Append(contributing_terms, [species |-> species, sbt |-> StoichBalanceTerms])
              ELSE contributing_terms
        i  == EntryOf(ct, species)
    IN  [ct EXCEPT ![i].sbt[balance_type] = @ \cup {rxn}]

\* for species in getattr(rxn, species_list_type): ... from position i on
RECURSIVE RegisterList(_, _, _, _, _)
RegisterList(contributing_terms, species_list, i, balance_type, rxn) ==
    IF i > Len(species_list) THEN contributing_terms
    ELSE RegisterList(AddTerm(contributing_terms, species_list[i], balance_type, rxn),
                      species_list, i + 1, balance_type, rxn)

\* for balance_type, species_list_type in SPECIES_BY_CONTRIB.items(): ...
RegisterSpecies(contributing_terms, rxn) ==
    LET gen == RegisterList(contributing_terms, rxn[SPECIES_BY_CONTRIB[1][2]], 1,
                            SPECIES_BY_CONTRIB[1][1], rxn)
    IN  RegisterList(gen, rxn[SPECIES_BY_CONTRIB[2][2]], 1, SPECIES_BY_CONTRIB[2][1], rxn)

\* a duplicate test that looks at the (key, value) pair instead of the key
DuplicateRateConstPair(rate_consts, rxn) ==
    /\ rxn.rate_const_key \in DOMAIN rate_consts
    /\ rate_consts[rxn.rate_const_key] = rxn.rate_const_value

\* if rxn.rate_const_key in rate_consts
DuplicateRateConst(rate_consts, rxn) == rxn.rate_const_key \in DOMAIN rate_consts

\* rate_consts[rxn.rate_const_key] = rxn.rate_const_value
RegisterRateConst(rate_consts, rxn) ==
    [k \in DOMAIN rate_consts \cup {rxn.rate_const_key} |->
        IF k = rxn.rate_const_key THEN rxn.rate_const_value ELSE rate_consts[k]]

\* the loop over rxns from position i on; a raise leaves the function with no
\* return value, whatever the local mappings held
RECURSIVE CompileLoop(_, _, _, _)
CompileLoop(rs, i, rate_consts, contributing_terms) ==
    IF i > Len(rs)
    THEN [raised |-> "", result |-> <<[rate_consts |-> rate_consts,
                                       contributing_terms |-> contributing_terms]>>]
    ELSE IF DuplicateRateConst(rate_consts, rs[i])
         THEN [raised |-> "KeyError", result |-> <<>>]
         ELSE CompileLoop(rs, i + 1, RegisterRateConst(rate_consts, rs[i]),
                          RegisterSpecies(contributing_terms, rs[i]))

compile_reaction_network(rs) == CompileLoop(rs, 1, <<>>, <<>>)

-----------------------------------------------------------------------------
(* reactions.py: compute_rate_const_tensors *)

\* the index tuples of an array of the given rank over n species (zero-based)
Cells(n, rank) == [1..rank -> 0..(n - 1)]

\* np.zeros((n,)*rank)
zeros(n, rank) == [cell \in Cells(n, rank) |-> 0]

\* rate_const_tensors_by_order as first built: order 1 -> rank 2, order 2 -> rank 3
ZeroTensors(n) == [o \in {1, 2} |-> zeros(n, o + 1)]

\* scaling_groups.get(rxn.scaling_group_id, 1.0)
scale_factor(groups, rxn) ==
    IF rxn.scaling_group_id # None /\ rxn.scaling_group_id[1] \in DOMAIN groups
    THEN groups[rxn.scaling_group_id[1]]
    ELSE 1

\* reactant indices taken in reverse reactant order
reactant_idxs_reversed(idxs, rxn) ==
    [i \in 1..Len(rxn.reactants) |-> idxs[rxn.reactants[Len(rxn.reactants) + 1 - i]]]

\* [idxs_by_species[s] for s in rxn.reactants]
reactant_idxs(idxs, rxn) == [i \in 1..Len(rxn.reactants) |-> idxs[rxn.reactants[i]]]

\* a cell value that applies the scale factor twice
CellValueScaledTwice(sign, groups, rxn) ==
    sign * scale_factor(groups, rxn) * scale_factor(groups, rxn) * rxn.rate_const_value

\* sign * scale_factor * rxn.rate_const_value
CellValue(sign, groups, rxn) == sign * scale_factor(groups, rxn) * rxn.rate_const_value

\* a write that accumulates into the cell (+=)
WriteCellAccumulating(tensor, cell, value) == [tensor EXCEPT ![cell] = @ + value]

\* rate_const_tensor[curr_spec_idx, *reactant_idxs] = value: an assignment
WriteCell(tensor, cell, value) == [tensor EXCEPT ![cell] = value]

\* the orders in which the two nested loops may visit the (sign, reaction)
\* pairs: species in the mapping's insertion order, and for each species one of
\* the lists signed_rxns may return
RECURSIVE VisitOrders(_, _)
VisitOrders(contributing_terms, i) ==
    IF i > Len(contributing_terms) THEN {<<>>}
    ELSE {[k \in 1..Len(sl) |-> [species |-> contributing_terms[i].species,
                                 sign    |-> sl[k][1],
                                 rxn     |-> sl[k][2]]] \o rest :
            sl \in signed_rxns(contributing_terms[i].sbt),
            rest \in VisitOrders(contributing_terms, i + 1)}

\* the loops, from visit i on.  rate_const_tensors_by_order.get(order) is None
\* for an order other than 1 and 2: the warning is logged, and the assignment
\* that follows subscripts None, which raises TypeError
RECURSIVE TensorLoop(_, _, _, _, _, _)
TensorLoop(visits, i, tensors, idxs, groups, warned) ==
    IF i > Len(visits)
    THEN [raised |-> "", result |-> <<tensors>>, warnings |-> warned, processed |-> visits]
    ELSE LET v    == visits[i]
             ord  == order(v.rxn)
             cell == <<idxs[v.species]>> \o reactant_idxs(idxs, v.rxn)
         IN  IF ord \notin DOMAIN tensors
             THEN [raised |-> "TypeError", result |-> <<>>,
                   warnings |-> Append(warned, ord), processed |-> SubSeq(visits, 1, i)]
             ELSE TensorLoop(visits, i + 1,
                             [tensors EXCEPT ![ord] = WriteCell(@, cell, CellValue(v.sign, groups, v.rxn))],
                             idxs, groups, warned)

compute_rate_const_tensors(visits, idxs, groups) ==
    TensorLoop(visits, 1, ZeroTensors(Cardinality(DOMAIN idxs)), idxs, groups, <<>>)

-----------------------------------------------------------------------------
(* solvers.py: law_of_mass_action *)

\* the sum of a sequence of numbers, left to right
RECURSIVE SumSeq(_)
SumSeq(seq) == IF seq = <<>> THEN 0 ELSE seq[1] + SumSeq(Tail(seq))

\* np.outer(C, C): every pairwise product of concentrations
outer(a, b) == [cell \in Cells(Cardinality(DOMAIN a), 2) |-> a[cell[1]] * b[cell[2]]]

\* np.dot(K, C) for a matrix K and a vector C: contracts K's last axis with C
dot(K, vec) ==
    LET n == Cardinality(DOMAIN vec)
    IN  [i \in 0..(n - 1) |-> SumSeq([j \in 1..n |-> K[<<i, j - 1>>] * vec[j - 1]])]

\* np.tensordot(K2, C2) with the default axes=2: contracts K2's last two axes
\* with C2's first two
tensordot(K2, C2, n) ==
    [i \in 0..(n - 1) |->
        SumSeq([j \in 1..n |-> SumSeq([k \in 1..n |-> K2[<<i, j - 1, k - 1>>] * C2[<<j - 1, k - 1>>]])])]

\* a right-hand side that leaves out the second-order term
law_of_mass_action_first_order(time, conc, tensors) == dot(tensors[1], conc)

\* law_of_mass_action(t, C, rate_const_tensors)
law_of_mass_action(time, conc, tensors) ==
    LET K  == tensors[1]
        K2 == tensors[2]
        C2 == outer(conc, conc)
        n  == Cardinality(DOMAIN conc)
        first  == dot(K, conc)
        second == tensordot(K2, C2, n)
    IN  [i \in 0..(n - 1) |-> first[i] + second[i]]

-----------------------------------------------------------------------------
(* The inputs tried *)

\* reactant and product lists: the shapes the documentation discusses and the
\* boundary ones (repeated species, both roles, reactant order, orders 0 and 3)
Shapes == {
    << <<"A">>, <<"B">> >>,
    << <<"B">>, <<"A">> >>,
    << <<"A">>, <<"C">> >>,
    << <<"A", "A">>, <<"B">> >>,
    << <<"A", "B">>, <<"C">> >>,
    << <<"B", "A">>, <<"C">> >>,
    << <<"A">>, <<"A", "B">> >>,
    << <<"A">>, <<"B", "B">> >>,
    << <<"A", "A", "B">>, <<"C">> >>,
    << <<>>, <<"A">> >> }

RateConstKeys == {"k1", "k2"}
RateConstValues == {2, 3}
ScalingGroupIds == {None, <<1>>}

Catalogue ==
    {ElementaryReaction(sh[1], sh[2], v, k, "", g) :
        sh \in Shapes, v \in RateConstValues, k \in RateConstKeys, g \in ScalingGroupIds}

Networks == UNION {[1..n -> Catalogue] : n \in 0..MaxRxns}

\* the networks of the duplicate-key runs: longer, over few shapes and more keys
KeyCatalogue ==
    {ElementaryReaction(sh[1], sh[2], v, k, "", None) :
        sh \in {<< <<"A">>, <<"B">> >>, << <<"B", "A">>, <<"A">> >>},
        v \in RateConstValues, k \in {"k1", "k2", "k3"}}

KeyNetworks == UNION {[1..n -> KeyCatalogue] : n \in 0..MaxKeyRxns}

\* species index maps: the bijections from a set of species onto 0..n-1, for
\* every set of species that covers the keys of the per-species mapping
Bijections(S) ==
    {f \in [S -> 0..(Cardinality(S) - 1)] : \A a, b \in S : f[a] = f[b] => a = b}

IndexMaps(contributing_terms) ==
    LET needed == {contributing_terms[i].species : i \in 1..Len(contributing_terms)}
    IN  UNION {Bijections(S) : S \in {S \in SUBSET Species : needed \subseteq S}}

ScalingGroupMaps == {<<>>, [g \in {1} |-> 3], [g \in {2} |-> 5]}

\* the subsets of S with at most k members
RECURSIVE SubsetsUpTo(_, _)
SubsetsUpTo(S, k) ==
    IF k = 0 THEN {{}}
    ELSE LET prev == SubsetsUpTo(S, k - 1)
         IN  prev \cup {p \cup {x} : p \in prev, x \in S}

\* the tensors handed to law_of_mass_action: at most MaxNonZero non-zero
\* cells over both tensors, all holding the same coefficient
NumSpecies == Cardinality(Species)
ODETensors ==
    {[o \in {1, 2} |-> [cell \in Cells(NumSpecies, o + 1) |-> IF cell \in nz THEN v ELSE 0]] :
        nz \in SubsetsUpTo(Cells(NumSpecies, 2) \cup Cells(NumSpecies, 3), MaxNonZero),
        v \in {-1, 2}}

Concentrations == {0, 1, 2}
ConcVectors == [0..(NumSpecies - 1) -> Concentrations]
Times == {0, 1}

\* the reactions a caller reverses
ReverseCatalogue ==
    {ElementaryReaction(sh[1], sh[2], 2, k, nm, g) :
        sh \in {<< <<"A">>, <<"B">> >>, << <<"A", "A">>, <<"B">> >>, << <<"A">>, <<"A", "B">> >>,
                << <<"A", "B">>, <<"C">> >>, << <<>>, <<"A">> >>},
        k \in {"", "k"}, nm \in {"", "fwd"}, g \in ScalingGroupIds}

-----------------------------------------------------------------------------
(* The calls a caller makes *)

CompileIdle == rxns = <<>> /\ compile_result = <<>>
TensorIdle ==
    /\ idxs_by_species = <<>> /\ scaling_groups = <<>> /\ processed = <<>>
    /\ warnings = <<>> /\ rate_const_tensors = <<>>
OdeIdle == t = 0 /\ C = <<>> /\ dCdt = <<>>
ReverseIdle == pool = <<>> /\ derived_from = <<>>

\* a caller about to compile a network
Init ==
    /\ rxns \in Networks
    /\ compile_result = <<>>
    /\ raised = ""
    /\ phase = "start"
    /\ TensorIdle /\ OdeIdle /\ ReverseIdle

CompileReactionNetwork ==
    /\ phase = "start"
    /\ LET out == compile_reaction_network(rxns)
       IN  /\ compile_result' = out.result
           /\ raised' = out.raised
    /\ phase' = "compiled"
    /\ UNCHANGED <<rxns, tensor_vars, ode_vars, reverse_vars>>

ComputeRateConstTensors ==
    /\ phase = "compiled"
    /\ raised = ""
    /\ \E idxs \in IndexMaps(compile_result[1].contributing_terms),
          groups \in ScalingGroupMaps,
          visits \in VisitOrders(compile_result[1].contributing_terms, 1) :
          LET out == compute_rate_const_tensors(visits, idxs, groups)
          IN  /\ idxs_by_species' = idxs
              /\ scaling_groups' = groups
              /\ rate_const_tensors' = out.result
              /\ raised' = out.raised
              /\ warnings' = out.warnings
              /\ processed' = out.processed
    /\ phase' = "tensors"
    /\ UNCHANGED <<compile_vars, ode_vars, reverse_vars>>

Next == CompileReactionNetwork \/ ComputeRateConstTensors

Spec == Init /\ [][Next]_vars

\* a caller about to compile a network that may repeat rate-constant keys
InitKeys ==
    /\ rxns \in KeyNetworks
    /\ compile_result = <<>>
    /\ raised = ""
    /\ phase = "start"
    /\ TensorIdle /\ OdeIdle /\ ReverseIdle

NextKeys == CompileReactionNetwork

SpecKeys == InitKeys /\ [][NextKeys]_vars

\* the solver calling the right-hand side, any number of times, on tensors the
\* caller handed to integrate_reaction_network
InitODE ==
    /\ rate_const_tensors \in {<<tensors>> : tensors \in ODETensors}
    /\ idxs_by_species = <<>> /\ scaling_groups = <<>> /\ processed = <<>> /\ warnings = <<>>
    /\ raised = ""
    /\ phase = "tensors"
    /\ CompileIdle /\ OdeIdle /\ ReverseIdle

\* one call by the solver.  The function keeps no state, so a later call at
\* another concentration reaches what a first call there reaches: after the
\* first call only the re-evaluations at the same concentration are followed
LawOfMassAction ==
    /\ phase \in {"tensors", "rhs"}
    /\ raised = ""
    /\ \E time \in Times, conc \in ConcVectors :
          /\ phase = "rhs" => conc = C
          /\ t' = time
          /\ C' = conc
          /\ dCdt' = <<law_of_mass_action(time, conc, rate_const_tensors[1])>>
    /\ phase' = "rhs"
    /\ UNCHANGED <<raised, compile_vars, tensor_vars, reverse_vars>>

NextODE == LawOfMassAction

SpecODE == InitODE /\ [][NextODE]_vars

\* a caller holding one reaction and deriving reverses from what it holds
InitReverse ==
    /\ pool \in {<<rxn>> : rxn \in ReverseCatalogue}
    /\ derived_from = <<0>>
    /\ raised = ""
    /\ phase = "start"
    /\ CompileIdle /\ TensorIdle /\ OdeIdle

CreateReverseReaction ==
    /\ Len(pool) < MaxPool
    /\ \E i \in 1..Len(pool), k_rev_value \in {5}, k_rev_key \in {None, <<"kr">>},
          rev_name \in {None, <<"back">>}, default_suffix \in {"rev"} :
          /\ pool' = Append(pool, create_reverse_reaction(pool[i], k_rev_value, k_rev_key,
                                                          rev_name, default_suffix))
          /\ derived_from' = Append(derived_from, i)
    /\ UNCHANGED <<raised, phase, compile_vars, tensor_vars, ode_vars>>

NextReverse == CreateReverseReaction

SpecReverse == InitReverse /\ [][NextReverse]_vars

-----------------------------------------------------------------------------
(* What the properties below talk about *)

\* compile_reaction_network returned its two mappings
Compiled == compile_result # <<>>
Terms == compile_result[1].contributing_terms

\* compute_rate_const_tensors was called and returned the tensor mapping
TensorsReturned == phase = "tensors" /\ raised = ""
Tensor(o) == rate_const_tensors[1][o]

\* the species occurring in a list
SpeciesIn(list) == {list[i] : i \in 1..Len(list)}

\* the (species, sign, reaction) contributions the per-species mapping holds
Contributions ==
    UNION {{[species |-> Terms[i].species, sign |-> 1, rxn |-> r] : r \in Terms[i].sbt.generation}
           \cup {[species |-> Terms[i].species, sign |-> -1, rxn |-> r] : r \in Terms[i].sbt.consumption} :
           i \in 1..Len(Terms)}

\* the cell a contribution targets: row index(s), then the index of each
\* reactant in reactant order
TargetCell(c) ==
    <<idxs_by_species[c.species]>> \o
        [i \in 1..Len(c.rxn.reactants) |-> idxs_by_species[c.rxn.reactants[i]]]

\* the factor the documentation gives a reaction: the mapping's entry for its
\* group, 1 without a group or without an entry
DocumentedFactor(rxn) ==
    IF rxn.scaling_group_id = None THEN 1
    ELSE IF rxn.scaling_group_id[1] \in DOMAIN scaling_groups
         THEN scaling_groups[rxn.scaling_group_id[1]]
         ELSE 1

DocumentedValue(c) == c.sign * DocumentedFactor(c.rxn) * c.rxn.rate_const_value

SameTarget(c, d) == Len(c.rxn.reactants) = Len(d.rxn.reactants) /\ TargetCell(c) = TargetCell(d)

SupportedOrders == \A i \in 1..Len(rxns) : Len(rxns[i].reactants) \in {1, 2}

\* no two contributions of one species target the same cell
NoCollision ==
    \A c, d \in Contributions : (c.species = d.species /\ c # d) => ~SameTarget(c, d)

\* visit i of the loops is the last one that targets its cell
LastWriter(i) ==
    \A j \in (i + 1)..Len(processed) : ~SameTarget(processed[i], processed[j])

\* the sum of a function's values
RECURSIVE SumFn(_)
SumFn(f) ==
    IF DOMAIN f = {} THEN 0
    ELSE LET x == CHOOSE x \in DOMAIN f : TRUE
         IN  f[x] + SumFn([y \in DOMAIN f \ {x} |-> f[y]])

-----------------------------------------------------------------------------
(* C1 *)

\* C1: for a network whose reactions all have order 1 or 2 and in which no two
\* contributions of one species target the same cell, compute_rate_const_tensors
\* returns tensors that hold, for every species s and every (sign, reaction)
\* pair of s, sign * scale factor * rate constant in the tensor of the
\* reaction's order at [index(s), index(r1)] or [index(s), index(r1), index(r2)];
\* A+A->B with rate k, unscaled, A at 0 and B at 1, gives tensor2[1,0,0] = k
\* and tensor2[0,0,0] = -k.
C1_CellHoldsSignedScaledRate ==
    (phase = "tensors" /\ SupportedOrders /\ NoCollision) =>
        /\ TensorsReturned
        /\ \A c \in Contributions :
              Tensor(Len(c.rxn.reactants))[TargetCell(c)] = DocumentedValue(c)
        /\ (/\ Len(rxns) = 1
            /\ rxns[1].reactants = <<"A", "A">> /\ rxns[1].products = <<"B">>
            /\ DocumentedFactor(rxns[1]) = 1
            /\ idxs_by_species["A"] = 0 /\ idxs_by_species["B"] = 1)
              => /\ Tensor(2)[<<1, 0, 0>>] = rxns[1].rate_const_value
                 /\ Tensor(2)[<<0, 0, 0>>] = - rxns[1].rate_const_value

\* a second-order reaction with two different reactants, scaled, beside another
\* reaction, compiled over an index map that is not alphabetical
C1_Witness ==
    /\ TensorsReturned /\ SupportedOrders /\ NoCollision
    /\ Len(rxns) = 2
    /\ rxns[1].reactants = <<"B", "A">> /\ rxns[1].scaling_group_id = <<1>>
    /\ rxns[2].reactants = <<"A", "A">>
    /\ scaling_groups = [g \in {1} |-> 3]
    /\ idxs_by_species = [s \in Species |-> IF s = "A" THEN 2 ELSE IF s = "B" THEN 0 ELSE 1]

-----------------------------------------------------------------------------
(* C2 *)

\* the network {X->Y with k1, Y->X with k2} compiled without scaling and its
\* tensors returned
TwoWay(X, Y) ==
    /\ TensorsReturned
    /\ Len(rxns) = 2
    /\ rxns[1].reactants = <<X>> /\ rxns[1].products = <<Y>>
    /\ rxns[2].reactants = <<Y>> /\ rxns[2].products = <<X>>
    /\ \A i \in 1..2 : DocumentedFactor(rxns[i]) = 1

\* C2 as stated: the network {A->B with k1, B->A with k2}, unscaled, gives
\* tensor[index(B), index(A)] = k1, tensor[index(A), index(B)] = k2, every
\* other rank-2 entry 0, and an all-zero rank-3 tensor.
C2_OnlyOffDiagonal ==
    \A X, Y \in Species : (X # Y /\ TwoWay(X, Y)) =>
        LET iX == idxs_by_species[X]
            iY == idxs_by_species[Y]
        IN  /\ Tensor(1)[<<iY, iX>>] = rxns[1].rate_const_value
            /\ Tensor(1)[<<iX, iY>>] = rxns[2].rate_const_value
            /\ \A cell \in DOMAIN Tensor(1) :
                  cell \notin {<<iY, iX>>, <<iX, iY>>} => Tensor(1)[cell] = 0
            /\ \A cell \in DOMAIN Tensor(2) : Tensor(2)[cell] = 0

\* C2 as amended: ... gives tensor[index(B), index(A)] = k1,
\* tensor[index(A), index(B)] = k2, the consumption entries
\* tensor[index(A), index(A)] = -k1 and tensor[index(B), index(B)] = -k2, every
\* other rank-2 entry 0, and an all-zero rank-3 tensor.
C2_WithConsumptionDiagonal ==
    \A X, Y \in Species : (X # Y /\ TwoWay(X, Y)) =>
        LET iX == idxs_by_species[X]
            iY == idxs_by_species[Y]
        IN  /\ Tensor(1)[<<iY, iX>>] = rxns[1].rate_const_value
            /\ Tensor(1)[<<iX, iY>>] = rxns[2].rate_const_value
            /\ Tensor(1)[<<iX, iX>>] = - rxns[1].rate_const_value
            /\ Tensor(1)[<<iY, iY>>] = - rxns[2].rate_const_value
            /\ \A cell \in DOMAIN Tensor(1) :
                  cell \notin {<<iY, iX>>, <<iX, iY>>, <<iX, iX>>, <<iY, iY>>} => Tensor(1)[cell] = 0
            /\ \A cell \in DOMAIN Tensor(2) : Tensor(2)[cell] = 0

\* A->B with k1 = 2 and B->A with k2 = 3 over a two-species index map
C2_Witness ==
    /\ TwoWay("A", "B")
    /\ rxns[1].rate_const_value = 2 /\ rxns[2].rate_const_value = 3
    /\ DOMAIN idxs_by_species = {"A", "B"}

-----------------------------------------------------------------------------
(* C3 *)

DuplicateKeyAt(i, j) == i < j /\ rxns[i].rate_const_key = rxns[j].rate_const_key

\* C3: compile_reaction_network fails with the duplicate-rate-constant error
\* whenever two reactions of the input share a rate-constant key, whatever
\* their positions and values, and then returns neither mapping.
C3_DuplicateKeyFails ==
    (phase = "compiled" /\ \E i, j \in 1..Len(rxns) : DuplicateKeyAt(i, j)) =>
        /\ raised = "KeyError"
        /\ compile_result = <<>>

\* the first and the third reaction share a key, the one between them has
\* another, and the two values differ
C3_Witness ==
    /\ phase = "compiled" /\ raised = "KeyError"
    /\ Len(rxns) = 3
    /\ DuplicateKeyAt(1, 3) /\ ~DuplicateKeyAt(1, 2)
    /\ rxns[1].rate_const_value # rxns[3].rate_const_value

-----------------------------------------------------------------------------
(* C4 *)

\* C4: when compute_rate_const_tensors meets a reaction whose order is neither
\* 1 nor 2 it warns, skips the reaction (no cell of either tensor receives
\* anything from it), goes on with the others and returns the tensor mapping.
C4_UnsupportedOrderSkipped ==
    (phase = "tensors" /\ \E c \in Contributions : Len(c.rxn.reactants) \notin {1, 2}) =>
        /\ raised = ""
        /\ rate_const_tensors # <<>>
        /\ warnings # <<>>
        /\ \A i \in 1..Len(processed) :
              (Len(processed[i].rxn.reactants) \in {1, 2} /\ LastWriter(i)) =>
                  Tensor(Len(processed[i].rxn.reactants))[TargetCell(processed[i])]
                      = DocumentedValue(processed[i])

-----------------------------------------------------------------------------
(* C5 *)

\* C5: the scale factor of a reaction enters each cell the reaction writes
\* exactly once, as a factor: it is scaling_groups[g] when the reaction's group
\* g is a key of the mapping, and 1 without a group or without an entry; A->B
\* with k = 2 in group 1 gives tensor[index(B), index(A)] = 6 under {1: 3} and
\* 2 under the empty mapping.
C5_ScaleFactorOnce ==
    TensorsReturned =>
        /\ \A i \in 1..Len(processed) :
              LastWriter(i) =>
                  Tensor(Len(processed[i].rxn.reactants))[TargetCell(processed[i])]
                      = processed[i].sign * processed[i].rxn.rate_const_value
                          * (IF \E g \in DOMAIN scaling_groups : processed[i].rxn.scaling_group_id = <<g>>
                             THEN scaling_groups[processed[i].rxn.scaling_group_id[1]]
                             ELSE 1)
        /\ (/\ Len(rxns) = 1
            /\ rxns[1].reactants = <<"A">> /\ rxns[1].products = <<"B">>
            /\ rxns[1].rate_const_value = 2 /\ rxns[1].scaling_group_id = <<1>>)
              => LET cell == <<idxs_by_species["B"], idxs_by_species["A"]>>
                 IN  /\ scaling_groups = [g \in {1} |-> 3] => Tensor(1)[cell] = 6
                     /\ scaling_groups = <<>> => Tensor(1)[cell] = 2

\* A->B with k = 2 in group 1, compiled with the mapping {1: 3}
C5_Witness ==
    /\ TensorsReturned
    /\ Len(rxns) = 1
    /\ rxns[1].reactants = <<"A">> /\ rxns[1].products = <<"B">>
    /\ rxns[1].rate_const_value = 2 /\ rxns[1].scaling_group_id = <<1>>
    /\ scaling_groups = [g \in {1} |-> 3]
    /\ Tensor(1)[<<idxs_by_species["B"], idxs_by_species["A"]>>] = 6

-----------------------------------------------------------------------------
(* C6 *)

\* C6: after a successful compile_reaction_network the stoichiometry mapping
\* has a key for exactly the species that occur as a reactant or a product of
\* an input reaction, and for each such species a reaction is in the
\* generation set iff the species is among its products and in the
\* consumption set iff it is among its reactants, once per role however often
\* the species is repeated on that side.
C6_StoichiometrySets ==
    Compiled =>
        /\ {Terms[i].species : i \in 1..Len(Terms)}
              = UNION {SpeciesIn(rxns[n].reactants) \cup SpeciesIn(rxns[n].products) : n \in 1..Len(rxns)}
        /\ \A i, j \in 1..Len(Terms) : Terms[i].species = Terms[j].species => i = j
        /\ \A i \in 1..Len(Terms) :
              /\ Terms[i].sbt.generation
                    = {rxns[n] : n \in {n \in 1..Len(rxns) : Terms[i].species \in SpeciesIn(rxns[n].products)}}
              /\ Terms[i].sbt.consumption
                    = {rxns[n] : n \in {n \in 1..Len(rxns) : Terms[i].species \in SpeciesIn(rxns[n].reactants)}}
              /\ \A sl \in signed_rxns(Terms[i].sbt) :
                    \A a, b \in 1..Len(sl) : sl[a] = sl[b] => a = b

\* two reactions compiled, one repeating a species among its reactants and the
\* other generating that same species
C6_Witness ==
    /\ Compiled /\ phase = "compiled"
    /\ Len(rxns) = 2
    /\ rxns[1].reactants = <<"A", "A">> /\ rxns[1].products = <<"B">>
    /\ rxns[2].reactants = <<"B">> /\ rxns[2].products = <<"A">>
    /\ \E i \in 1..Len(Terms) :
          /\ Terms[i].species = "A"
          /\ Terms[i].sbt.consumption = {rxns[1]}
          /\ Terms[i].sbt.generation = {rxns[2]}

-----------------------------------------------------------------------------
(* C7 *)

\* C7: the right-hand side returns, for every concentration vector C and every
\* index i, sum_j K1[i,j]*C[j] + sum_{j,k} K2[i,j,k]*C[j]*C[k]; the result is
\* the same at every time t, and the call leaves the tensors as they were.
C7_MassActionLaw ==
    /\ [](phase = "rhs" =>
            dCdt = <<[i \in DOMAIN C |->
                        SumFn([j \in DOMAIN C |-> rate_const_tensors[1][1][<<i, j>>] * C[j]])
                        + SumFn([jk \in (DOMAIN C) \X (DOMAIN C) |->
                                   rate_const_tensors[1][2][<<i, jk[1], jk[2]>>] * C[jk[1]] * C[jk[2]]])]>>)
    /\ [][/\ rate_const_tensors' = rate_const_tensors
          /\ (phase = "rhs" /\ C' = C) => dCdt' = dCdt]_vars

\* a call at t = 1 on concentrations that all differ, in which a first-order
\* and a second-order coefficient both contribute to the same species
C7_Witness ==
    /\ phase = "rhs" /\ t = 1
    /\ C[0] = 1 /\ C[1] = 2 /\ C[2] = 0
    /\ rate_const_tensors[1][1][<<0, 1>>] = 2
    /\ rate_const_tensors[1][2][<<0, 0, 1>>] = 2
    /\ dCdt[1][0] = 8

-----------------------------------------------------------------------------
(* C8 *)

\* C8: create_reverse_reaction returns a new reaction whose reactants are r's
\* products and whose products are r's reactants and leaves every attribute of
\* r as it was; so the reverse of the reverse has r's reactant and product
\* lists (keys and rate values need not come back).
C8_ReverseSwapsLists ==
    /\ [](\A j \in 1..Len(pool) : derived_from[j] # 0 =>
            LET r == pool[derived_from[j]]
            IN  /\ pool[j].reactants = r.products
                /\ pool[j].products = r.reactants
                /\ derived_from[derived_from[j]] # 0 =>
                      /\ pool[j].reactants = pool[derived_from[derived_from[j]]].reactants
                      /\ pool[j].products = pool[derived_from[derived_from[j]]].products)
    /\ [][\A i \in 1..Len(pool) : pool'[i] = pool[i]]_vars

\* a reaction with different lists, its reverse and the reverse of that; the
\* key and the scaling group of the original do not come back
C8_Witness ==
    /\ Len(pool) = 3 /\ derived_from = <<0, 1, 2>>
    /\ pool[1].reactants = <<"A", "B">> /\ pool[1].products = <<"C">>
    /\ pool[1].scaling_group_id = <<1>>
    /\ pool[3].reactants = <<"A", "B">> /\ pool[3].products = <<"C">>
    /\ pool[1].rate_const_key = "k" /\ pool[3].rate_const_key = "k_rev_rev"
    /\ pool[3].scaling_group_id = None

-----------------------------------------------------------------------------
(* C9 *)

\* C9: when two contributions target the very same cell, the cell ends up
\* holding the value written by the one processed later, never the sum of the
\* two.
C9_LaterWriteOverwrites ==
    TensorsReturned =>
        \A i, j \in 1..Len(processed) :
            (i < j /\ SameTarget(processed[i], processed[j]) /\ LastWriter(j)) =>
                LET cell == Tensor(Len(processed[j].rxn.reactants))[TargetCell(processed[j])]
                IN  /\ cell = DocumentedValue(processed[j])
                    /\ cell # DocumentedValue(processed[i]) + DocumentedValue(processed[j])

\* A->B with k1 = 2 and A->C with k2 = 3 both consume A at [index(A), index(A)];
\* the loops met A->C first, and the cell holds -2
C9_Witness ==
    /\ TensorsReturned
    /\ Len(rxns) = 2
    /\ rxns[1].reactants = <<"A">> /\ rxns[1].products = <<"B">> /\ rxns[1].rate_const_value = 2
    /\ rxns[2].reactants = <<"A">> /\ rxns[2].products = <<"C">> /\ rxns[2].rate_const_value = 3
    /\ scaling_groups = <<>>
    /\ \E i, j \in 1..Len(processed) :
          /\ i < j
          /\ processed[i].species = "A" /\ processed[i].rxn = rxns[2]
          /\ processed[j].species = "A" /\ processed[j].rxn = rxns[1]
    /\ Tensor(1)[<<idxs_by_species["A"], idxs_by_species["A"]>>] = -2

-----------------------------------------------------------------------------
(* C10 *)

\* C10: a reaction in which a species s is both a reactant and a product is in
\* both the generation and the consumption set of s, and its net effect on s in
\* the tensors is the signed sum of the two contributions (a zero coefficient
\* for s in that cell, when nothing else targets the cell).
C10_BothRolesNetZero ==
    TensorsReturned =>
        \A c, d \in Contributions :
            (c.species = d.species /\ c.rxn = d.rxn /\ c.sign = 1 /\ d.sign = -1) =>
                /\ \E i \in 1..Len(Terms) :
                      /\ Terms[i].species = c.species
                      /\ c.rxn \in Terms[i].sbt.generation
                      /\ c.rxn \in Terms[i].sbt.consumption
                /\ (\A e \in Contributions : SameTarget(e, c) => e \in {c, d}) =>
                      Tensor(Len(c.rxn.reactants))[TargetCell(c)]
                          = DocumentedValue(c) + DocumentedValue(d)

====
